---------------------------- MODULE Spec2Model ----------------------------
(***************************************************************************)
(* Model of the MQTT backend consumer (MQTT_APP/mqtt_backend_consumer.py). *)
(*                                                                         *)
(* The consumer's on_message callback is invoked by the transport once per *)
(* delivered payload.  It increments message_count, decodes the payload,   *)
(* then calls store_timeseries_data (InfluxDB write) and                   *)
(* update_device_metadata (MongoDB upsert).  Deliveries may be concurrent: *)
(* each member of Threads is one delivery context.  The steps of one       *)
(* invocation are split where it touches shared state: the read and the    *)
(* write of message_count, the InfluxDB write, the MongoDB upsert.         *)
(*                                                                         *)
(* The two databases are external.  A call to either one either succeeds   *)
(* and takes effect, or raises an exception and leaves the store as it     *)
(* was; which of the two happens is chosen nondeterministically.  A        *)
(* single-document MongoDB update is atomic.                               *)
(***************************************************************************)
EXTENDS Integers, Sequences, FiniteSets, TLC

(* ------------------------------ bounds --------------------------------- *)

\* number of concurrent delivery contexts of the transport
MaxThreads == 2

\* number of payloads delivered in one behaviour
MaxMsgs == 2

Threads == 1..MaxThreads

\* number of connect notifications in one behaviour
MaxConnects == 2

\* number of notifications the simulator's transport makes in one behaviour
MaxNotes == 3

\* number of calls of the simulator's publish_data in one behaviour
MaxPublishes == 2

(* --------------------------- Python values ----------------------------- *)

\* Python's None: the result of dict.get for an absent key, the value of a
\* function that returns nothing, "no exception".
None == "None"

\* a JSON number (floats are represented by integers)
Num(n) == [isnum |-> TRUE, n |-> n, s |-> ""]

\* a JSON string
Str(s) == [isnum |-> FALSE, n |-> 0, s |-> s]

\* one (key, value) item of a JSON object
Item(k, v) == [name |-> k, value |-> v]

\* the strings float() accepts, with the number each one denotes
NumericStrings == [s \in {"23"} |-> 23]

\* float(value), lines 121 and 130: a number converts to itself, a string is
\* parsed, and a string that is no number raises ValueError.
float(value) ==
    IF value.isnum
    THEN [exc |-> None, val |-> value.n]
    ELSE IF value.s \in DOMAIN NumericStrings
         THEN [exc |-> None, val |-> NumericStrings[value.s]]
         ELSE [exc |-> "ValueError", val |-> 0]

(* ----------------------------- payloads -------------------------------- *)

\* A payload as it arrives in msg.payload.  kind says what the bytes are:
\*   "notjson"  text that is not JSON           (json.loads raises)
\*   "array"    JSON, but not an object         (json.loads returns a list)
\*   "object"   a JSON object with the given members; an absent member is
\*              None (device_id, timestamp) or the empty sequence (sensors,
\*              status), which is what payload.get(...) makes of it.
Bytes(kind) ==
    [kind |-> kind, device_id |-> None, timestamp |-> None,
     sensors |-> <<>>, status |-> <<>>]

Object(d, ts, sensors, status) ==
    [kind |-> "object", device_id |-> d, timestamp |-> ts,
     sensors |-> sensors, status |-> status]

T0 == "2024-01-01T00:00:00Z"
T1 == "2024-01-01T00:00:05Z"

Payloads ==
    { Bytes("notjson"),
      Bytes("array"),
      \* the end-to-end example: one sensor, one status entry
      Object("d1", T1, <<Item("temperature", Num(22))>>,
                       <<Item("battery", Num(80))>>),
      \* the same device, an older reading
      Object("d1", T0, <<Item("temperature", Num(19))>>,
                       <<Item("battery", Num(79))>>),
      \* a non-numeric value in the second of two sensor entries
      Object("d2", T0, <<Item("temperature", Num(21)), Item("humidity", Str("bad"))>>,
                       <<Item("battery", Num(61))>>),
      \* device_id absent
      Object(None, T1, <<Item("temperature", Num(20))>>, <<>>),
      \* device_id empty; two status entries
      Object("", T1, <<>>, <<Item("battery", Num(50)), Item("uptime", Num(1000))>>),
      \* timestamp absent; the value is a numeric string
      Object("d3", None, <<Item("temperature", Str("23"))>>, <<>>) }

(* ---------------------------- exceptions ------------------------------- *)

\* the exception classes the handlers meet; each is a subclass of Exception
ExceptionSubclasses ==
    {"JSONDecodeError", "AttributeError", "ValueError",
     "InfluxError", "MongoError"}

\* msg.payload.decode() and json.loads(...), line 69, followed by
\* payload.get('device_id', 'unknown') in line 71.
Decode(m) ==
    CASE m.kind = "notjson" -> "JSONDecodeError"
      [] m.kind = "array"   -> "AttributeError"
      [] OTHER              -> None

\* on_message with the clause `except Exception` left out
on_message_except_JSONOnly(e) ==
    IF e = "JSONDecodeError" THEN "Failed to parse JSON" ELSE None

\* the except clauses of on_message, lines 76-79: the log line written for
\* exception e, or None when no clause matches and e leaves the callback.
on_message_except(e) ==
    IF e = "JSONDecodeError" THEN "Failed to parse JSON"
    ELSE IF e \in ExceptionSubclasses THEN "Error processing message"
    ELSE None

\* the except clause of process_message_sync, lines 102-103
process_message_sync_except(e) ==
    IF e \in ExceptionSubclasses THEN "Error in process_message_sync" ELSE None

\* the except clause of process_message, lines 90-91
process_message_except(e) ==
    IF e \in ExceptionSubclasses THEN "Error in process_message" ELSE None

\* the except clause of store_timeseries_data, lines 143-144
store_timeseries_data_except(e) ==
    IF e \in ExceptionSubclasses THEN "Error storing to InfluxDB" ELSE None

\* the except clause of update_device_metadata, lines 168-169
update_device_metadata_except(e) ==
    IF e \in ExceptionSubclasses THEN "Error updating MongoDB" ELSE None

(* ------------------------- timeseries points --------------------------- *)

\* Point(measurement).tag("device_id", ..).tag(tag, name).field("value", v)
\*   .time(timestamp), lines 118-122 and 127-131
Point(measurement, device_id, tag, name, v, timestamp) ==
    [measurement |-> measurement, device_id |-> device_id, tag |-> tag,
     name |-> name, value |-> v, time |-> timestamp]

\* One of the two for loops of store_timeseries_data: append one point per
\* item, in order; the first float() that raises ends the loop.
RECURSIVE PointsOf(_, _, _, _, _)
PointsOf(items, measurement, tag, device_id, timestamp) ==
    IF items = <<>>
    THEN [exc |-> None, points |-> <<>>]
    ELSE LET f == float(Head(items).value)
         IN  IF f.exc # None
             THEN [exc |-> f.exc, points |-> <<>>]
             ELSE LET rest == PointsOf(Tail(items), measurement, tag,
                                       device_id, timestamp)
                  IN  [exc |-> rest.exc,
                       points |-> <<Point(measurement, device_id, tag,
                                          Head(items).name, f.val, timestamp)>>
                                  \o rest.points]

\* store_timeseries_data with the loop over `status` left out
BuildPoints_SensorsOnly(payload) ==
    PointsOf(payload.sensors, "sensor_data", "sensor_type",
             payload.device_id, payload.timestamp)

\* lines 108-132: the list `points` built from the payload, or the exception
\* that ended its construction.
BuildPoints(payload) ==
    LET s == PointsOf(payload.sensors, "sensor_data", "sensor_type",
                      payload.device_id, payload.timestamp)
        u == PointsOf(payload.status, "device_status", "status_type",
                      payload.device_id, payload.timestamp)
    IN  IF s.exc # None THEN [exc |-> s.exc, points |-> <<>>]
        ELSE IF u.exc # None THEN [exc |-> u.exc, points |-> <<>>]
        ELSE [exc |-> None, points |-> s.points \o u.points]

(* ------------------------------- state --------------------------------- *)

VARIABLES
    message_count,        \* self.message_count
    influx,               \* the points InfluxDB has stored
    metadata_collection,  \* the documents of collection device_metadata
    clock,                \* readings of datetime.utcnow() taken so far
    delivered,            \* the payloads handed to on_message, in order
    pc,                   \* per thread: where its on_message invocation is
    path,                 \* per thread: "sync" (on_message) or "async" (process_message)
    msg,                  \* per thread: the payload being handled
    reg,                  \* per thread: message_count as read by `+= 1`, 0 once used
    ts_calls,             \* per thread: calls of write_api.write for msg
    ts_failed,            \* per thread: a write_api.write for msg raised
    batch,                \* per thread: `record` of the last write call
    md_calls,             \* per thread: calls of update_one for msg
    md_failed,            \* per thread: an update_one for msg raised
    log,                  \* per thread: error lines logged for msg
    ret,                  \* per thread: what on_message returned for msg
    main,                 \* where the main thread is in start() and stop()
    loop,                 \* the transport's network loop thread is running
    link,                 \* the transport's connection to the broker
    influx_open,          \* influx_client has not been closed
    mongo_open,           \* mongo_client has not been closed
    stops,                \* invocations of stop()
    subscribe_calls,      \* the calls client.subscribe(topic, qos), in order
    connects,             \* connect notifications so far
    notified,             \* the last notification of the transport
    connected,            \* simulator: self.connected
    sim_pc,               \* simulator: where the main thread is in connect()
    timeout,              \* simulator: `timeout` of connect(), in half seconds
    polls,                \* simulator: time.sleep(0.5) calls made by connect()
    connect_ret,          \* simulator: what connect() returned
    sim_loop,             \* simulator: its network loop thread is running
    sim_link,             \* simulator: its connection to the broker
    sim_notes,            \* simulator: notifications so far
    sim_notified,         \* simulator: the last notification
    publish_pc,           \* simulator: where the main thread is in publish_data
    publish_calls,        \* simulator: calls of publish_data
    published,            \* simulator: calls of client.publish
    publish_ret           \* simulator: what the last publish_data returned

vars == <<message_count, influx, metadata_collection, clock, delivered,
          pc, path, msg, reg, ts_calls, ts_failed, batch, md_calls, md_failed,
          log, ret, main, loop, link, influx_open, mongo_open, stops,
          subscribe_calls, connects, notified, connected, sim_pc, timeout,
          polls, connect_ret, sim_loop, sim_link, sim_notes, sim_notified,
          publish_pc, publish_calls, published, publish_ret>>

stores == <<influx, metadata_collection, clock>>
tsvars == <<ts_calls, ts_failed, batch>>
mdvars == <<md_calls, md_failed>>
clients == <<influx_open, mongo_open>>
transport == <<loop, link, subscribe_calls, connects, notified>>
lifevars == <<main, stops, clients, transport>>
simconn == <<sim_pc, timeout, polls, connect_ret, sim_loop>>
simnote == <<sim_link, sim_notes, sim_notified>>
simpub == <<publish_pc, publish_calls, published, publish_ret>>
simvars == <<connected, simconn, simnote, simpub>>
msgvars == <<message_count, stores, delivered, pc, path, msg, reg, tsvars,
             mdvars, log, ret>>

\* __init__, lines 24-50
Init ==
    /\ message_count = 0
    /\ influx = {}
    /\ metadata_collection = {}
    /\ clock = 0
    /\ delivered = <<>>
    /\ pc = [t \in Threads |-> "idle"]
    /\ path = [t \in Threads |-> "sync"]
    /\ msg = [t \in Threads |-> Bytes("notjson")]
    /\ reg = [t \in Threads |-> 0]
    /\ ts_calls = [t \in Threads |-> 0]
    /\ ts_failed = [t \in Threads |-> FALSE]
    /\ batch = [t \in Threads |-> <<>>]
    /\ md_calls = [t \in Threads |-> 0]
    /\ md_failed = [t \in Threads |-> FALSE]
    /\ log = [t \in Threads |-> {}]
    /\ ret = [t \in Threads |-> "pending"]
    /\ main = "constructed"
    /\ loop = FALSE
    /\ link = "down"
    /\ influx_open = TRUE
    /\ mongo_open = TRUE
    /\ stops = 0
    /\ subscribe_calls = <<>>
    /\ connects = 0
    /\ notified = [kind |-> "none", reason_code |-> 0]
    /\ connected = FALSE
    /\ sim_pc = "new"
    /\ timeout = 0
    /\ polls = 0
    /\ connect_ret = "pending"
    /\ sim_loop = FALSE
    /\ sim_link = "down"
    /\ sim_notes = 0
    /\ sim_notified = [kind |-> "none", reason_code |-> 0]
    /\ publish_pc = "idle"
    /\ publish_calls = 0
    /\ published = 0
    /\ publish_ret = "pending"

(* --------------------------- the two stores ---------------------------- *)

\* write_api.write(bucket, org, record=points), lines 135-139, when it
\* succeeds: the bucket holds every point of the batch.  Writing a point
\* the bucket already holds leaves it as it is.
write(bucket, points) ==
    bucket \cup {points[i] : i \in 1..Len(points)}

\* `metadata` with 'status' left at the default of payload.get('status', {})
Metadata_NoStatus(payload, now) ==
    [device_id |-> payload.device_id,
     last_seen |-> now + 1,
     last_payload |-> payload,
     status |-> <<>>,
     updated_at |-> now + 2]

\* the dict `metadata` of update_device_metadata, lines 152-158; the two
\* readings of datetime.utcnow() are the next two values of the clock.
Metadata(payload, now) ==
    [device_id |-> payload.device_id,
     last_seen |-> now + 1,
     last_payload |-> payload,
     status |-> payload.status,
     updated_at |-> now + 2]

\* update_one with the empty filter {}: every document matches
update_one_AnyDocument(coll, device_id, metadata) ==
    IF coll = {}
    THEN {coll \cup {metadata}}
    ELSE {(coll \ {d}) \cup {metadata} : d \in coll}

\* insert_one(metadata) in place of the upsert: a document is always added
update_one_InsertAlways(coll, device_id, metadata) ==
    {coll \cup {metadata}}

\* collection.update_one({'device_id': device_id}, {'$set': metadata},
\* upsert=True), lines 160-164: the collections that can result.  With no
\* document of that device_id one is inserted; otherwise one matching
\* document has every field of `metadata` set.
update_one(coll, device_id, metadata) ==
    LET matching == {d \in coll : d.device_id = device_id}
    IN  IF matching = {}
        THEN {coll \cup {metadata}}
        ELSE {(coll \ {d}) \cup {metadata} : d \in matching}

(* ----------------------- exception propagation ------------------------- *)

\* process_message_sync with the two calls in the other order
CallOrder_Swapped(p, step) ==
    CASE step = "begin"                  -> "update_device_metadata"
      [] step = "update_device_metadata" -> "store_timeseries_data"
      [] step = "store_timeseries_data"  -> "returned"

\* The order of the calls in process_message_sync, lines 96-100, and in
\* process_message, lines 84-88 (p says which of the two): what follows
\* the given step.  Each `await asyncio.to_thread(f, payload)` of
\* process_message completes before the next statement runs.
CallOrder(p, step) ==
    CASE step = "begin"                  -> "store_timeseries_data"
      [] step = "store_timeseries_data"  -> "update_device_metadata"
      [] step = "update_device_metadata" -> "returned"

\* the except clause of the function that called the sink function
caller_except(p, e) ==
    IF p = "sync" THEN process_message_sync_except(e)
    ELSE process_message_except(e)

\* Exception e is raised inside the try block of a sink function whose own
\* except clause logs own_line (None: the clause does not match).  The
\* innermost matching clause logs its line; after the function's own
\* clause the caller goes on at next_pc; after the caller's clause the
\* invocation returns; on the path through on_message its clauses come
\* next; with no matching clause the exception leaves the invocation.
Unwind(p, e, own_line, next_pc) ==
    IF own_line # None
    THEN [pc |-> next_pc, line |-> own_line]
    ELSE IF caller_except(p, e) # None
    THEN [pc |-> "returned", line |-> caller_except(p, e)]
    ELSE IF p = "sync" /\ on_message_except(e) # None
    THEN [pc |-> "returned", line |-> on_message_except(e)]
    ELSE [pc |-> "crashed", line |-> None]

Goto(t, r) ==
    /\ pc' = [pc EXCEPT ![t] = r.pc]
    /\ log' = [log EXCEPT ![t] = IF r.line = None THEN @ ELSE @ \cup {r.line}]
    /\ ret' = [ret EXCEPT ![t] = IF r.pc = "returned" THEN None ELSE @]

(* ------------------------------ actions -------------------------------- *)

\* the payload parses as a JSON object
WellFormed(m) == m.kind = "object"

\* a delivery context that is not inside on_message
Free(t) == pc[t] \in {"idle", "returned"}

\* The transport invokes on_message(client, userdata, msg) with payload p;
\* line 68, first half: `self.message_count += 1` reads the attribute.
\* Delivery contexts are interchangeable: the lowest free one is taken.
on_message_load(t, p) ==
    /\ Free(t)
    /\ \A u \in Threads : u < t => ~Free(u)
    /\ Len(delivered) < MaxMsgs
    /\ delivered' = Append(delivered, p)
    /\ msg' = [msg EXCEPT ![t] = p]
    /\ reg' = [reg EXCEPT ![t] = message_count]
    /\ pc' = [pc EXCEPT ![t] = "on_message"]
    /\ path' = [path EXCEPT ![t] = "sync"]
    /\ ts_calls' = [ts_calls EXCEPT ![t] = 0]
    /\ ts_failed' = [ts_failed EXCEPT ![t] = FALSE]
    /\ batch' = [batch EXCEPT ![t] = <<>>]
    /\ md_calls' = [md_calls EXCEPT ![t] = 0]
    /\ md_failed' = [md_failed EXCEPT ![t] = FALSE]
    /\ log' = [log EXCEPT ![t] = {}]
    /\ ret' = [ret EXCEPT ![t] = "pending"]
    /\ UNCHANGED <<message_count, stores>>
    /\ UNCHANGED <<lifevars, simvars>>

\* the increment moved behind json.loads: only a decoded payload is counted
Incremented_AfterDecode(r, e) == IF e = None THEN r + 1 ELSE r

\* line 68: the value `self.message_count += 1` stores, having read r.  The
\* statement comes before json.loads, so the outcome e of decoding has no
\* part in it.
Incremented(r, e) == r + 1

\* line 68, second half: the incremented value is stored; then lines 69-79:
\* the payload is decoded and, if that raised nothing, handed to
\* process_message_sync.
on_message(t) ==
    /\ pc[t] = "on_message"
    /\ message_count' = Incremented(reg[t], Decode(msg[t]))
    /\ reg' = [reg EXCEPT ![t] = 0]
    /\ LET e == Decode(msg[t])
       IN  IF e = None
           THEN Goto(t, [pc |-> CallOrder("sync", "begin"), line |-> None])
           ELSE IF on_message_except(e) # None
           THEN Goto(t, [pc |-> "returned", line |-> on_message_except(e)])
           ELSE Goto(t, [pc |-> "crashed", line |-> None])
    /\ UNCHANGED <<stores, delivered, path, msg, tsvars, mdvars>>
    /\ UNCHANGED <<lifevars, simvars>>

\* store_timeseries_data(payload), lines 105-144, called in lines 85, 97
store_timeseries_data(t) ==
    /\ pc[t] = "store_timeseries_data"
    /\ LET b == BuildPoints(msg[t])
           next == CallOrder(path[t], "store_timeseries_data")
       IN  IF b.exc # None
           THEN /\ Goto(t, Unwind(path[t], b.exc,
                                  store_timeseries_data_except(b.exc), next))
                /\ UNCHANGED <<tsvars, influx>>
           ELSE \E ok \in BOOLEAN :
                /\ ts_calls' = [ts_calls EXCEPT ![t] = @ + 1]
                /\ batch' = [batch EXCEPT ![t] = b.points]
                /\ IF ok
                   THEN /\ influx' = write(influx, b.points)
                        /\ Goto(t, [pc |-> next, line |-> None])
                        /\ UNCHANGED ts_failed
                   ELSE /\ ts_failed' = [ts_failed EXCEPT ![t] = TRUE]
                        /\ Goto(t, Unwind(path[t], "InfluxError",
                                          store_timeseries_data_except("InfluxError"),
                                          next))
                        /\ UNCHANGED influx
    /\ UNCHANGED <<message_count, metadata_collection, clock, delivered,
                   path, msg, reg, mdvars>>
    /\ UNCHANGED <<lifevars, simvars>>

\* update_device_metadata(payload), lines 146-169, called in lines 88, 100;
\* when the caller has made both calls, it and on_message return.
update_device_metadata(t) ==
    /\ pc[t] = "update_device_metadata"
    /\ clock' = clock + 2
    /\ md_calls' = [md_calls EXCEPT ![t] = @ + 1]
    /\ LET next == CallOrder(path[t], "update_device_metadata")
       IN  \E ok \in BOOLEAN :
             IF ok
             THEN /\ metadata_collection' \in
                       update_one(metadata_collection, msg[t].device_id,
                                  Metadata(msg[t], clock))
                  /\ Goto(t, [pc |-> next, line |-> None])
                  /\ UNCHANGED md_failed
             ELSE /\ md_failed' = [md_failed EXCEPT ![t] = TRUE]
                  /\ Goto(t, Unwind(path[t], "MongoError",
                                    update_device_metadata_except("MongoError"),
                                    next))
                  /\ UNCHANGED metadata_collection
    /\ UNCHANGED <<message_count, influx, delivered, path, msg, reg, tsvars>>
    /\ UNCHANGED <<lifevars, simvars>>

\* process_message(payload, topic), lines 81-91, is started for the decoded
\* payload p (a dict); message_count is not touched on this path.
process_message(t, p) ==
    /\ Free(t)
    /\ \A u \in Threads : u < t => ~Free(u)
    /\ WellFormed(p)
    /\ Len(delivered) < MaxMsgs
    /\ delivered' = Append(delivered, p)
    /\ msg' = [msg EXCEPT ![t] = p]
    /\ pc' = [pc EXCEPT ![t] = CallOrder("async", "begin")]
    /\ path' = [path EXCEPT ![t] = "async"]
    /\ ts_calls' = [ts_calls EXCEPT ![t] = 0]
    /\ ts_failed' = [ts_failed EXCEPT ![t] = FALSE]
    /\ batch' = [batch EXCEPT ![t] = <<>>]
    /\ md_calls' = [md_calls EXCEPT ![t] = 0]
    /\ md_failed' = [md_failed EXCEPT ![t] = FALSE]
    /\ log' = [log EXCEPT ![t] = {}]
    /\ ret' = [ret EXCEPT ![t] = "pending"]
    /\ UNCHANGED <<message_count, stores, reg>>
    /\ UNCHANGED <<lifevars, simvars>>

Next ==
    \E t \in Threads :
        \/ \E p \in Payloads : on_message_load(t, p)
        \/ on_message(t)
        \/ store_timeseries_data(t)
        \/ update_device_metadata(t)

Spec == Init /\ [][Next]_vars

\* The transport as the paho network loop runs it: one delivery context,
\* which invokes on_message for one payload after the other.
SeqNext ==
    \/ \E p \in Payloads : on_message_load(1, p)
    \/ on_message(1)
    \/ store_timeseries_data(1)
    \/ update_device_metadata(1)

SeqSpec == Init /\ [][SeqNext]_vars

\* One context in which each message takes either path: the callback
\* on_message with process_message_sync, or the coroutine process_message.
PathNext ==
    \/ \E p \in Payloads : on_message_load(1, p)
    \/ \E p \in Payloads : process_message(1, p)
    \/ on_message(1)
    \/ store_timeseries_data(1)
    \/ update_device_metadata(1)

PathSpec == Init /\ [][PathNext]_vars

(* ------------------- connection and life cycle ------------------------- *)

\* config['mqtt']['topics'], line 238: the default of MQTT_TOPICS
Topics == <<"sensors/data", "sensors/#">>

\* qos=1 in line 57
SubscribeQoS == 1

\* reason codes of a notification: 0 (success), 128 (unspecified error),
\* 135 (not authorized)
ReasonCodes == {0, 128, 135}

\* on_connect with the test of reason_code left out
on_connect_calls_Always(reason_code) ==
    [i \in 1..Len(Topics) |-> [topic |-> Topics[i], qos |-> SubscribeQoS]]

\* lines 53-60: the calls client.subscribe(topic, qos=1) that on_connect
\* makes for the given reason code, in order
on_connect_calls(reason_code) ==
    IF reason_code = 0
    THEN [i \in 1..Len(Topics) |-> [topic |-> Topics[i], qos |-> SubscribeQoS]]
    ELSE <<>>

\* The network loop invokes on_connect(client, userdata, flags,
\* reason_code, properties), lines 52-60, when the broker answers a
\* connection attempt; with reason code 0 the connection is up.
on_connect(reason_code) ==
    /\ loop /\ link = "down" /\ Free(1)
    /\ connects < MaxConnects
    /\ connects' = connects + 1
    /\ notified' = [kind |-> "connect", reason_code |-> reason_code]
    /\ link' = IF reason_code = 0 THEN "up" ELSE "down"
    /\ subscribe_calls' = subscribe_calls \o on_connect_calls(reason_code)
    /\ UNCHANGED <<simvars, msgvars, main, stops, clients, loop>>

\* The network loop invokes on_disconnect(client, userdata,
\* disconnect_flags, reason_code, properties), lines 62-63, when the
\* connection is lost; the method only logs a warning.
on_disconnect(reason_code) ==
    /\ loop /\ link = "up" /\ Free(1)
    /\ notified' = [kind |-> "disconnect", reason_code |-> reason_code]
    /\ link' = "down"
    /\ UNCHANGED <<simvars, msgvars, main, stops, clients, loop, subscribe_calls,
                   connects>>

\* The network loop delivers a payload: while it runs and the connection
\* is up it invokes on_message.
deliver(p) ==
    /\ loop /\ link = "up"
    /\ on_message_load(1, p)

\* stop() closing the two database clients before it stops the transport
stop_order_ClientsFirst(step) ==
    CASE step = "begin"        -> "influx_close"
      [] step = "influx_close" -> "mongo_close"
      [] step = "mongo_close"  -> "loop_stop"
      [] step = "loop_stop"    -> "disconnect"
      [] step = "disconnect"   -> "stopped"

\* stop(), lines 214-228: the order of its calls; what follows each
stop_order(step) ==
    CASE step = "begin"        -> "loop_stop"
      [] step = "loop_stop"    -> "disconnect"
      [] step = "disconnect"   -> "influx_close"
      [] step = "influx_close" -> "mongo_close"
      [] step = "mongo_close"  -> "stopped"

\* start(), lines 184-199: mqtt_client.connect(...) and loop_start().  When
\* connect raises (ok is FALSE), the clause of lines 210-212 calls stop().
start(ok) ==
    /\ main = "constructed"
    /\ IF ok
       THEN /\ main' = "running"
            /\ loop' = TRUE
            /\ UNCHANGED stops
       ELSE /\ main' = stop_order("begin")
            /\ stops' = stops + 1
            /\ UNCHANGED loop
    /\ UNCHANGED <<simvars, msgvars, clients, link, subscribe_calls, connects, notified>>

\* lines 202-208: KeyboardInterrupt ends the `while True` loop and the
\* except clause calls stop().
KeyboardInterrupt ==
    /\ main = "running"
    /\ main' = stop_order("begin")
    /\ stops' = stops + 1
    /\ UNCHANGED <<simvars, msgvars, clients, transport>>

\* stop(), line 219: mqtt_client.loop_stop() ends the network loop thread
\* and joins it, so it returns once the thread is in no callback.
stop_loop_stop ==
    /\ main = "loop_stop"
    /\ Free(1)
    /\ loop' = FALSE
    /\ main' = stop_order("loop_stop")
    /\ UNCHANGED <<simvars, msgvars, stops, clients, link, subscribe_calls, connects,
                   notified>>

\* stop(), line 220: mqtt_client.disconnect()
stop_disconnect ==
    /\ main = "disconnect"
    /\ link' = "closed"
    /\ main' = stop_order("disconnect")
    /\ UNCHANGED <<simvars, msgvars, stops, clients, loop, subscribe_calls, connects,
                   notified>>

\* stop(), lines 222-223: influx_client.close()
stop_influx_close ==
    /\ main = "influx_close"
    /\ influx_open' = FALSE
    /\ main' = stop_order("influx_close")
    /\ UNCHANGED <<simvars, msgvars, stops, mongo_open, transport>>

\* stop(), lines 225-226: mongo_client.close(); stop() and start() return
stop_mongo_close ==
    /\ main = "mongo_close"
    /\ mongo_open' = FALSE
    /\ main' = stop_order("mongo_close")
    /\ UNCHANGED <<simvars, msgvars, stops, influx_open, transport>>

\* the payloads delivered in the life cycle runs
LifePayloads ==
    {p \in Payloads : p.kind = "notjson" \/ (p.device_id = "d1" /\ p.timestamp = T1)}

\* The consumer from start() to the return of stop(): the main thread and
\* the one network loop thread of the transport.
LifeNext ==
    \/ \E ok \in BOOLEAN : start(ok)
    \/ KeyboardInterrupt
    \/ stop_loop_stop
    \/ stop_disconnect
    \/ stop_influx_close
    \/ stop_mongo_close
    \/ \E rc \in ReasonCodes : on_connect(rc)
    \/ \E rc \in ReasonCodes : on_disconnect(rc)
    \/ \E p \in LifePayloads : deliver(p)
    \/ on_message(1)
    \/ store_timeseries_data(1)
    \/ update_device_metadata(1)

LifeSpec == Init /\ [][LifeNext]_vars

(* --------------------------- edge simulator ---------------------------- *)
(* EdgeDeviceSimulator of MQTT_APP/mqtt_edge_simulator.py: its main thread *)
(* runs connect() and then publish_data(); the network loop thread of its  *)
(* own transport client runs on_connect and on_disconnect.                 *)

\* timeout = 10 in line 45, in seconds
ConnectTimeout == 10

\* time.sleep(0.5) and timeout -= 0.5, lines 47-48: polls per second
PollsPerSecond == 2

\* Python's str() of a bool
Bool(b) == IF b THEN "True" ELSE "False"

\* the loop of connect() going on while timeout is 0
keep_polling_Inclusive(c, t) == ~c /\ t >= 0

\* line 46: `while not self.connected and timeout > 0`
keep_polling(c, t) == ~c /\ t > 0

\* connect(), lines 41-43 and 50-52: client.connect(...) and loop_start();
\* when client.connect raises (ok is FALSE), connect() returns False.
sim_connect(ok) ==
    /\ sim_pc = "new"
    /\ IF ok
       THEN /\ sim_loop' = TRUE
            /\ timeout' = ConnectTimeout * PollsPerSecond
            /\ sim_pc' = "polling"
            /\ UNCHANGED connect_ret
       ELSE /\ connect_ret' = Bool(FALSE)
            /\ sim_pc' = "done"
            /\ UNCHANGED <<sim_loop, timeout>>
    /\ UNCHANGED <<msgvars, lifevars, connected, polls, simnote, simpub>>

\* connect(), lines 46-48: one test of the loop condition and, when it
\* holds, one sleep of half a second
sim_poll ==
    /\ sim_pc = "polling"
    /\ IF keep_polling(connected, timeout)
       THEN /\ polls' = polls + 1
            /\ timeout' = timeout - 1
            /\ UNCHANGED sim_pc
       ELSE /\ sim_pc' = "return"
            /\ UNCHANGED <<polls, timeout>>
    /\ UNCHANGED <<msgvars, lifevars, connected, connect_ret, sim_loop,
                   simnote, simpub>>

\* connect(), line 49: `return self.connected`
sim_return ==
    /\ sim_pc = "return"
    /\ connect_ret' = Bool(connected)
    /\ sim_pc' = "done"
    /\ UNCHANGED <<msgvars, lifevars, connected, timeout, polls, sim_loop,
                   simnote, simpub>>

\* on_connect of the simulator, lines 29-34, run by its network loop
sim_on_connect(reason_code) ==
    /\ sim_loop /\ sim_link = "down"
    /\ sim_notes < MaxNotes
    /\ sim_notes' = sim_notes + 1
    /\ sim_notified' = [kind |-> "connect", reason_code |-> reason_code]
    /\ sim_link' = IF reason_code = 0 THEN "up" ELSE "down"
    /\ connected' = IF reason_code = 0 THEN TRUE ELSE connected
    /\ UNCHANGED <<msgvars, lifevars, simconn, simpub>>

\* on_disconnect of the simulator, lines 36-38, run by its network loop
sim_on_disconnect(reason_code) ==
    /\ sim_loop /\ sim_link = "up"
    /\ sim_notes < MaxNotes
    /\ sim_notes' = sim_notes + 1
    /\ sim_notified' = [kind |-> "disconnect", reason_code |-> reason_code]
    /\ sim_link' = "down"
    /\ connected' = FALSE
    /\ UNCHANGED <<msgvars, lifevars, simconn, simpub>>

\* publish_data(topic), lines 72-76, called by run_continuous for a device
\* whose connect() returned True: the test of the flag, and the return of
\* False when it is not set
publish_data ==
    /\ sim_pc = "done" /\ connect_ret = Bool(TRUE)
    /\ publish_pc = "idle"
    /\ publish_calls < MaxPublishes
    /\ publish_calls' = publish_calls + 1
    /\ IF ~connected
       THEN /\ publish_ret' = Bool(FALSE)
            /\ UNCHANGED publish_pc
       ELSE /\ publish_pc' = "publish"
            /\ UNCHANGED publish_ret
    /\ UNCHANGED <<msgvars, lifevars, connected, simconn, simnote, published>>

\* publish_data(topic), lines 78-93: client.publish and the return of
\* whether it reports MQTT_ERR_SUCCESS (ok)
publish_data_publish(ok) ==
    /\ publish_pc = "publish"
    /\ published' = published + 1
    /\ publish_ret' = Bool(ok)
    /\ publish_pc' = "idle"
    /\ UNCHANGED <<msgvars, lifevars, connected, simconn, simnote,
                   publish_calls>>

SimNext ==
    \/ \E ok \in BOOLEAN : sim_connect(ok)
    \/ sim_poll
    \/ sim_return
    \/ \E rc \in ReasonCodes : sim_on_connect(rc)
    \/ \E rc \in ReasonCodes : sim_on_disconnect(rc)
    \/ publish_data
    \/ \E ok \in BOOLEAN : publish_data_publish(ok)

SimSpec == Init /\ [][SimNext]_vars

TypeOK ==
    /\ message_count \in 0..MaxMsgs
    /\ \A t \in Threads :
         pc[t] \in {"idle", "on_message", "store_timeseries_data",
                    "update_device_metadata", "returned", "crashed"}
    /\ connected \in BOOLEAN
    /\ sim_pc \in {"new", "polling", "return", "done"}
    /\ timeout \in 0..(ConnectTimeout * PollsPerSecond)
    /\ connect_ret \in {"pending", "True", "False"}
    /\ publish_pc \in {"idle", "publish"}
    /\ publish_ret \in {"pending", "True", "False"}

(* ------------------------- notions of the claims ----------------------- *)

\* on_message has returned for the payload in msg[t]
Returned(t) == pc[t] = "returned"

\* no invocation of on_message is in progress
Quiescent == \A t \in Threads : Free(t)

\* a well-formed payload that names its device
HasDeviceId(m) == WellFormed(m) /\ m.device_id \notin {None, ""}

\* the (metric, value) items of a payload, sensors first
Items(m) == m.sensors \o m.status

\* every value of the payload is a JSON number
AllNumeric(m) == \A i \in 1..Len(Items(m)) : Items(m)[i].value.isnum

\* the integer attributes of the consumer object, line 50
Counters == [message_count |-> message_count]

\* how many of the payloads delivered so far are not JSON objects
NumMalformed == Cardinality({i \in 1..Len(delivered) : ~WellFormed(delivered[i])})

\* the IngestOutcome the specification prescribes for the message of t
Outcome(t) ==
    IF ~WellFormed(msg[t]) THEN "Rejected"
    ELSE IF ts_failed[t] /\ md_failed[t] THEN "PartiallyPersisted({timeseries, metadata})"
    ELSE IF ts_failed[t] THEN "PartiallyPersisted({timeseries})"
    ELSE IF md_failed[t] THEN "PartiallyPersisted({metadata})"
    ELSE "Accepted"

(* ------------------------------- claims -------------------------------- *)

\* C1: for every payload that decodes successfully, both the timeseries
\* write and the metadata upsert are attempted, whatever the outcome of the
\* other.
C1_BothSinksAttempted ==
    \A t \in Threads :
        Returned(t) /\ WellFormed(msg[t]) =>
            ts_calls[t] >= 1 /\ md_calls[t] >= 1

\* C2: no failure leaves on_message: whatever the payload and whatever the
\* sinks do, no invocation ends with an exception, and one that has ended
\* returned None and left its delivery context free for the next payload.
C2_NoFailureEscapes ==
    \A t \in Threads :
        /\ pc[t] # "crashed"
        /\ ret[t] # "pending" => Returned(t) /\ ret[t] = None /\ Free(t)

\* C2 witness: a JSON array was delivered and handled, then a well-formed
\* payload was handled in the same context with both sinks failing.
C2_Witness ==
    /\ Len(delivered) = 2
    /\ delivered[1].kind = "array"
    /\ Returned(1) /\ msg[1] = delivered[2]
    /\ ts_failed[1] /\ md_failed[1]

\* C3: a payload that is not a JSON object is rejected, a rejected-message
\* counter is incremented (some counter of the consumer holds the number of
\* rejected payloads), and neither sink is invoked for it.  Checked for
\* deliveries made one after the other.
C3_MalformedRejectedAndCounted ==
    /\ \A t \in Threads :
          Returned(t) /\ ~WellFormed(msg[t]) =>
              ts_calls[t] = 0 /\ md_calls[t] = 0
    /\ Quiescent /\ NumMalformed >= 1 =>
          \E c \in DOMAIN Counters : Counters[c] = NumMalformed

\* C4: no timeseries write and no metadata upsert is issued for a
\* well-formed payload whose device_id is absent or empty.
C4_NoSinkCallWithoutDeviceId ==
    \A t \in Threads :
        WellFormed(msg[t]) /\ ~HasDeviceId(msg[t]) =>
            ts_calls[t] = 0 /\ md_calls[t] = 0

\* C5: every payload produces exactly one outcome: Accepted iff both sink
\* writes succeeded, Rejected iff decoding failed, PartiallyPersisted naming
\* exactly the sinks that failed otherwise.
C5_OutcomeNamesWhatFailed ==
    \A t \in Threads : Returned(t) => ret[t] = Outcome(t)

\* C6: a sink call that fails is retried: a sink whose first attempt for a
\* message failed has been invoked more than once when on_message returns.
C6_FailedCallIsRetried ==
    \A t \in Threads :
        Returned(t) =>
            /\ ts_failed[t] => ts_calls[t] > 1
            /\ md_failed[t] => md_calls[t] > 1

\* C7: no increment of the message counter is lost: once every concurrent
\* invocation of on_message has completed, the counter equals the number of
\* invocations.
C7_NoLostIncrement ==
    Quiescent => message_count = Len(delivered)

\* the delivery contexts that have handled exactly one payload each, when
\* these are all the payloads delivered
OneEach == {t \in Threads : Returned(t)}

\* C8: K concurrent invocations for K distinct devices, the store
\* succeeding, make exactly K upserts and leave exactly K documents, one
\* per device, each holding the payload of its own device.
C8_DistinctDevicesDistinctRecords ==
    ( /\ Quiescent
      /\ Len(delivered) = Cardinality(OneEach)
      /\ \A t \in OneEach : HasDeviceId(msg[t]) /\ ~md_failed[t]
      /\ \A t, u \in OneEach : t # u => msg[t].device_id # msg[u].device_id )
    =>
    ( /\ \A t \in OneEach : md_calls[t] = 1
      /\ Cardinality(metadata_collection) = Cardinality(OneEach)
      /\ \A t \in OneEach :
            \E d \in metadata_collection :
                /\ d.device_id = msg[t].device_id
                /\ d.last_payload = msg[t]
                /\ d.status = msg[t].status
                /\ \A e \in metadata_collection :
                      e.device_id = d.device_id => e = d )

\* C8 witness: two overlapping invocations for two devices have completed
\* and both upserts succeeded.
C8_Witness ==
    /\ Quiescent
    /\ Cardinality(OneEach) = 2 /\ Len(delivered) = 2
    /\ \A t \in OneEach : HasDeviceId(msg[t]) /\ ~md_failed[t]
    /\ \E t, u \in OneEach : msg[t].device_id # msg[u].device_id
    /\ Cardinality(metadata_collection) = 2

\* store_timeseries_data has run for the payload in msg[t]
Stored(t) == pc[t] \in {"update_device_metadata", "returned"}

\* C9: a well-formed payload with N sensor and M status entries, all
\* numeric, is passed to the timeseries sink as N+M points in exactly one
\* write call: the i-th sensor entry as a "sensor_data" point and the j-th
\* status entry as a "device_status" point, each with the message's
\* device_id and timestamp and the entry's own name and value.
C9_OnePointPerEntryOneBatch ==
    \A t \in Threads :
        Stored(t) /\ WellFormed(msg[t]) /\ AllNumeric(msg[t]) =>
            LET N == Len(msg[t].sensors)
                M == Len(msg[t].status)
            IN  /\ ts_calls[t] = 1
                /\ Len(batch[t]) = N + M
                /\ \A i \in 1..(N + M) :
                      /\ batch[t][i].measurement =
                            (IF i <= N THEN "sensor_data" ELSE "device_status")
                      /\ batch[t][i].device_id = msg[t].device_id
                      /\ batch[t][i].name = Items(msg[t])[i].name
                      /\ batch[t][i].value = Items(msg[t])[i].value.n
                      /\ batch[t][i].time = msg[t].timestamp
                /\ ~ts_failed[t] =>
                      \A i \in 1..(N + M) : batch[t][i] \in influx

\* C9 witness: the end-to-end example (one sensor, one status entry) has
\* been written as a batch of two points.
C9_Witness ==
    \E t \in Threads :
        /\ Returned(t) /\ AllNumeric(msg[t])
        /\ Len(msg[t].sensors) = 1 /\ Len(msg[t].status) = 1
        /\ ts_calls[t] = 1 /\ Len(batch[t]) = 2 /\ ~ts_failed[t]

\* the entries of a payload whose value float() accepts
Coercible(m) == {i \in 1..Len(Items(m)) : float(Items(m)[i].value).exc = None}

\* C10: a non-numeric value drops only its own entry: the other entries of
\* the message are still passed to the timeseries sink as points.
C10_BadEntryDropsOnlyItself ==
    \A t \in Threads :
        Stored(t) /\ WellFormed(msg[t]) /\ ~AllNumeric(msg[t]) =>
            /\ ts_calls[t] = 1
            /\ Len(batch[t]) = Cardinality(Coercible(msg[t]))

\* the documents of a collection that belong to device_id
DocsOf(coll, device_id) == {d \in coll : d.device_id = device_id}

\* this step is an update_one of context t that succeeded
UpsertSucceeds(t) == md_calls'[t] = md_calls[t] + 1 /\ ~md_failed'[t]

\* C11: the metadata store holds at most one record per device_id and is
\* last-writer-wins by processing order.  Step by step, for messages
\* processed one after the other: a successful upsert leaves exactly one
\* document of its device, holding that message's payload and status, and
\* leaves the documents of all other devices as they were; no other step
\* changes the collection; no step leaves a device without a document
\* that had one.  The collection starts empty, so a device has a document
\* iff an upsert for it succeeded, and the document is that of the last one.
C11_LastWriterWins ==
    [][ /\ \A d, e \in metadata_collection' :
              d.device_id = e.device_id => d = e
        /\ \A d \in metadata_collection :
              DocsOf(metadata_collection', d.device_id) # {}
        /\ \A t \in Threads :
              UpsertSucceeds(t) =>
                /\ \E d \in DocsOf(metadata_collection', msg[t].device_id) :
                      d.last_payload = msg[t] /\ d.status = msg[t].status
                /\ \A d \in metadata_collection \cup metadata_collection' :
                      d.device_id # msg[t].device_id =>
                          d \in metadata_collection \cap metadata_collection'
        /\ (\A t \in Threads : ~UpsertSucceeds(t)) =>
              metadata_collection' = metadata_collection
      ]_vars

\* C11 witness: two messages of device d1 were processed, the later one
\* carrying the older timestamp, and the one document of d1 holds the
\* later message.
C11_Witness ==
    /\ Len(delivered) = 2
    /\ delivered[1] # delivered[2]
    /\ delivered[1].device_id = "d1" /\ delivered[1].timestamp = T1
    /\ delivered[2].device_id = "d1" /\ delivered[2].timestamp = T0
    /\ Returned(1) /\ ~md_failed[1]
    /\ \E d \in metadata_collection :
          /\ metadata_collection = {d}
          /\ d.last_payload = delivered[2]
          /\ d.last_seen > 2

\* the same payload has been delivered twice, one after the other, and
\* the second delivery has been handled
Redelivered ==
    /\ Len(delivered) = 2
    /\ delivered[1] = delivered[2]
    /\ WellFormed(delivered[2])
    /\ Returned(1)

SinkPending(t) == pc[t] \in {"store_timeseries_data", "update_device_metadata"}

\* C13: sink I/O does not block message delivery: while the timeseries
\* write or the metadata upsert of a message is still outstanding, the
\* delivery callback for that message has already returned to the
\* transport, so that the next payload can be delivered.
C13_CallbackReturnsBeforeSinkIO ==
    \A t \in Threads : SinkPending(t) => ret[t] = None

\* C14: a well-formed payload without a timestamp is rejected as a whole:
\* no timeseries write and no metadata upsert is made for it.
C14_NoTimestampNoWrite ==
    \A t \in Threads :
        WellFormed(msg[t]) /\ msg[t].timestamp = None =>
            ts_calls[t] = 0 /\ md_calls[t] = 0

C17_CountsEveryDelivery ==
    message_count = IF pc[1] = "on_message" THEN Len(delivered) - 1
                    ELSE Len(delivered)

\* C17 witness: a malformed and a well-formed payload have been handled
\* and the counter is 2.
C17_Witness ==
    /\ Len(delivered) = 2 /\ Returned(1)
    /\ ~WellFormed(delivered[1]) /\ WellFormed(delivered[2])
    /\ message_count = 2

\* C16: on every connect notification, reconnects included, the consumer
\* subscribes to every configured topic at QoS 1 if the reason code is 0,
\* and issues no subscription otherwise; a disconnect notification changes
\* no counter, no store, no client and no subscription.
C16_SubscribeIffAccepted ==
    [][ /\ connects' = connects + 1 =>
              LET n == Len(subscribe_calls)
                  made == SubSeq(subscribe_calls', n + 1, Len(subscribe_calls'))
              IN  /\ SubSeq(subscribe_calls', 1, n) = subscribe_calls
                  /\ notified'.reason_code = 0 =>
                        /\ Len(made) = Len(Topics)
                        /\ \A i \in 1..Len(Topics) :
                              made[i].topic = Topics[i] /\ made[i].qos = 1
                  /\ notified'.reason_code # 0 => made = <<>>
        /\ link = "up" /\ link' = "down" =>
              UNCHANGED <<message_count, stores, subscribe_calls, clients,
                          delivered, pc>>
      ]_vars

\* C16 witness: a connection was accepted, was lost, and the reconnection
\* was refused: the topics were subscribed once.
C16_Witness ==
    /\ connects = 2
    /\ notified.kind = "connect" /\ notified.reason_code # 0
    /\ Len(subscribe_calls) = Len(Topics)

SimNotification == sim_notes' = sim_notes + 1

\* C19: in the edge simulator the connected flag is true exactly between a
\* connect notification with reason code 0 and the next disconnect
\* notification (it is false at first, set by the former, cleared by the
\* latter, changed by nothing else); publish_data publishes nothing and
\* returns False when it finds the flag false (client.publish is called
\* only by a call that found it true); connect() makes at most 20 polls
\* and returns the value the flag has at that point.
C19_SimulatorConnectedFlag ==
    [][ /\ SimNotification /\ sim_notified'.kind = "connect"
              /\ sim_notified'.reason_code = 0 => connected'
        /\ SimNotification /\ sim_notified'.kind = "disconnect" => ~connected'
        /\ ~SimNotification \/ ( sim_notified'.kind = "connect"
                                  /\ sim_notified'.reason_code # 0 ) =>
              connected' = connected
        /\ publish_calls' = publish_calls + 1 /\ ~connected =>
              /\ published' = published
              /\ publish_pc' = "idle" /\ publish_ret' = "False"
        /\ published' # published => publish_pc = "publish"
        /\ polls' <= 20
        /\ connect_ret' # connect_ret => connect_ret' = Bool(connected)
      ]_vars

\* C19 witness: no connect notification with reason code 0 came and
\* connect() has returned False after its 20th poll.
C19_Witness ==
    /\ sim_pc = "done" /\ sim_loop
    /\ polls = 20 /\ timeout = 0
    /\ ~connected /\ connect_ret = "False"

=============================================================================
